---- MODULE Spec2Model ----
(***************************************************************************)
(* Model of csv.h: the Dialect bundle, Reader (read, read_internal, split,  *)
(* trim) and Writer (write_row, write_header).                              *)
(*                                                                          *)
(* A std::string is a sequence of one-character strings; a char is a        *)
(* one-character string; NUL stands for '\0'.                               *)
(***************************************************************************)
EXTENDS Integers, Sequences, FiniteSets, TLC

VARIABLES reader, pass, tok, writer, calls

vars == <<reader, pass, tok, writer, calls>>

(***************************************************************************)
(* Bounds                                                                   *)
(***************************************************************************)
MaxLen == 4

MaxCols == 2

MaxFileLines == 2

MaxRowsArg == 1

MaxPasses == 2

MaxConfig == 2

MaxWrites == 2

(***************************************************************************)
(* Characters and strings                                                   *)
(***************************************************************************)
NUL == "NUL"

QUOTE == "\""

Alphabet == {"a", ",", QUOTE, " "}

\* All strings over S of length at most n.
Strings(S, n) == UNION {[1..m -> S] : m \in 0..n}

\* std::string::operator[] with a 0-based position: the position size() is
\* the terminating '\0'.
At(s, i) == IF i < Len(s) THEN s[i + 1] ELSE NUL

(***************************************************************************)
(* Dialect                                                                  *)
(***************************************************************************)
\* Dialect::Dialect()
DefaultDialect ==
  [delimiter_ |-> <<",">>,
   skip_initial_space_ |-> FALSE,
   line_terminator_ |-> "\n",
   quote_character_ |-> QUOTE,
   double_quote_ |-> TRUE,
   trim_characters_ |-> {},
   header_ |-> TRUE,
   skip_empty_rows_ |-> FALSE,
   ignore_columns_ |-> {},
   column_names_ |-> <<>>]

(***************************************************************************)
(* Reader::ltrim, Reader::rtrim, Reader::trim                               *)
(***************************************************************************)
RECURSIVE ltrim(_, _)
ltrim(d, input) ==
  IF input # <<>> /\ Head(input) \in d.trim_characters_
  THEN ltrim(d, Tail(input))
  ELSE input

RECURSIVE rtrim(_, _)
rtrim(d, input) ==
  IF input # <<>> /\ input[Len(input)] \in d.trim_characters_
  THEN rtrim(d, SubSeq(input, 1, Len(input) - 1))
  ELSE input

trim(d, input) ==
  IF d.trim_characters_ = {} THEN input ELSE ltrim(d, rtrim(d, input))

\* The expression  trimming_enabled_ ? trim(sub_result) : sub_result
Flushed(d, trimming, sub_result) ==
  IF trimming THEN trim(d, sub_result) ELSE sub_result

(***************************************************************************)
(* Reader::split                                                            *)
(*                                                                          *)
(* The scan state st is the locals of split: i, sub_result,                 *)
(* quotes_encountered, result, delimiter_detected, and `accepted`, the      *)
(* positions i at which a delimiter match was accepted (a history of the    *)
(* scan, not a local of the code).                                          *)
(***************************************************************************)
\* The body of the inner  for (j ...)  loop from position j on.
RECURSIVE DelimiterLoop(_, _, _, _, _)
DelimiterLoop(d, trimming, s, st, j) ==
  IF j >= Len(d.delimiter_) THEN st
  ELSE
    IF At(s, st.i) # d.delimiter_[j + 1]
    THEN [st EXCEPT !.delimiter_detected = FALSE]
    ELSE
      IF j + 1 = Len(d.delimiter_)
      THEN
        IF st.quotes_encountered % 2 = 0
        THEN [st EXCEPT
                !.delimiter_detected = TRUE,
                !.result = Append(@, Flushed(d, trimming, st.sub_result)),
                !.sub_result = <<>>,
                !.accepted = @ \cup {st.i},
                !.i = IF st.i + 1 < Len(s) /\ d.skip_initial_space_
                         /\ At(s, st.i + 1) = " "
                      THEN st.i + 1 ELSE st.i,
                !.quotes_encountered = 0]
        ELSE [st EXCEPT
                !.sub_result = Append(@, At(s, st.i)),
                !.i = st.i + 1]
      ELSE
        IF st.i + 1 = Len(s)
        THEN [st EXCEPT !.i = st.i + 1]
        ELSE DelimiterLoop(d, trimming, s, [st EXCEPT !.i = st.i + 1], j + 1)

\* One iteration of the outer  for (i ...)  loop, without its ++i.
ScanStep(d, trimming, s, st) ==
  LET a == DelimiterLoop(d, trimming, s,
                         [st EXCEPT !.delimiter_detected = FALSE], 0)
      ch == At(s, a.i)
      b == IF a.delimiter_detected THEN a
           ELSE [a EXCEPT !.sub_result = Append(@, ch)]
      c == IF ch = d.quote_character_
           THEN [b EXCEPT !.quotes_encountered = @ + 1]
           ELSE b
  IN IF ch = d.quote_character_ /\ d.double_quote_
        /\ Len(c.sub_result) >= 2
        /\ c.sub_result[Len(c.sub_result) - 1] = ch
     THEN [c EXCEPT !.quotes_encountered = @ - 1]
     ELSE c

RECURSIVE ScanLoop(_, _, _, _)
ScanLoop(d, trimming, s, st) ==
  IF st.i < Len(s)
  THEN LET n == ScanStep(d, trimming, s, st)
       IN ScanLoop(d, trimming, s, [n EXCEPT !.i = @ + 1])
  ELSE st

\* The scan of split up to and including the final flush of sub_result:
\* everything before the pad/truncate step.
Scan(d, trimming, columns, s) ==
  LET st0 == [i |-> 0, sub_result |-> <<>>, quotes_encountered |-> 0,
              result |-> IF s = <<>> THEN [x \in 1..columns |-> <<>>] ELSE <<>>,
              delimiter_detected |-> FALSE, accepted |-> {}]
      st == ScanLoop(d, trimming, s, st0)
  IN IF st.sub_result # <<>>
     THEN [st EXCEPT !.result = Append(@, Flushed(d, trimming, st.sub_result))]
     ELSE st

\* The pad/truncate step with its truncating branch left out.
PadOnly(result, columns) ==
  IF Len(result) < columns
  THEN result \o [x \in 1..(columns - Len(result)) |-> <<>>]
  ELSE result

\* The pad/truncate step that ends split.
PadTruncate(result, columns) ==
  IF Len(result) < columns
  THEN result \o [x \in 1..(columns - Len(result)) |-> <<>>]
  ELSE IF Len(result) > columns /\ columns # 0
       THEN SubSeq(result, 1, columns)
       ELSE result

split(d, trimming, columns, s) ==
  PadTruncate(Scan(d, trimming, columns, s).result, columns)

(***************************************************************************)
(* Writer: the joining loop of write_row and write_header                   *)
(***************************************************************************)
\* row += entries[i]; if (i + 1 < entries.size()) row += delimiter;
RECURSIVE JoinEntries(_, _)
JoinEntries(entries, delimiter) ==
  IF entries = <<>> THEN <<>>
  ELSE IF Len(entries) = 1 THEN entries[1]
       ELSE entries[1] \o delimiter \o JoinEntries(Tail(entries), delimiter)

(***************************************************************************)
(* Reader::Reader() and Writer::Writer(): the three registered presets       *)
(***************************************************************************)
TAB == "\t"

Presets ==
  [n \in {"unix", "excel", "excel_tab"} |->
     IF n = "excel_tab" THEN [DefaultDialect EXCEPT !.delimiter_ = <<TAB>>]
     ELSE DefaultDialect]

ReaderInit ==
  [columns_ |-> 0,
   current_dialect_name_ |-> "excel",
   expected_number_of_rows_ |-> 0,
   ignore_columns_enabled_ |-> FALSE,
   trimming_enabled_ |-> FALSE,
   dialects_ |-> Presets,
   current_dialect_ |-> DefaultDialect,
   headers_ |-> <<>>,
   rows_ |-> <<>>]

WriterInit ==
  [header_written_ |-> FALSE,
   current_dialect_name_ |-> "excel",
   dialects_ |-> Presets,
   current_row_entries_ |-> <<>>,
   stream_ |-> <<>>]

\* No read() in progress: the locals of read and read_internal, with the
\* numbers of read() calls and of configuration calls (on the Reader or the
\* Writer) made so far, which the bounds of the model limit.
PassIdle ==
  [pc |-> "idle", file |-> <<>>, rows |-> 0, stream |-> <<>>,
   number_of_rows |-> 0, current_row |-> <<>>, split_result |-> <<>>,
   bound |-> FALSE, passes |-> 0, configs |-> 0]

TokIdle ==
  [stage |-> "none", input_string |-> <<>>, result |-> <<>>, scanned |-> <<>>,
   accepted |-> {}, first_line |-> <<>>, first_result |-> <<>>]

(***************************************************************************)
(* The tokenizer on its own: split applied to a line under a Reader whose   *)
(* current_dialect_, columns_ and trimming_enabled_ are drawn from bounded  *)
(* sets, then the fields joined as Writer::write_row joins them and split    *)
(* again.                                                                   *)
(***************************************************************************)
\* The scenario lines of the tokenizer.
LineQuotedDelimiter == <<"a", ",", QUOTE, "b", ",", "c", QUOTE, ",", "d">>

LineDoubledQuote ==
  <<"a", ",", QUOTE, "b", QUOTE, QUOTE, "c", QUOTE, ",", "d">>

LineDoubledThenDelimiter == <<QUOTE, "a", QUOTE, QUOTE, ",", "b", QUOTE>>

ScenarioLines ==
  {LineQuotedDelimiter, LineDoubledQuote, LineDoubledThenDelimiter}

Lines == Strings(Alphabet, MaxLen) \cup ScenarioLines

Delimiters == {<<",">>, <<",", ",">>}

SplitDialects ==
  {[DefaultDialect EXCEPT !.delimiter_ = de, !.double_quote_ = dq,
                          !.skip_initial_space_ = sk, !.trim_characters_ = tr] :
     de \in Delimiters, dq \in BOOLEAN, sk \in BOOLEAN, tr \in {{}, {" "}}}

InitSplit ==
  /\ \E d \in SplitDialects, k \in 0..MaxCols :
       reader = [ReaderInit EXCEPT !.current_dialect_ = d, !.columns_ = k,
                                   !.trimming_enabled_ = (d.trim_characters_ # {})]
  /\ \E s \in Lines : tok = [TokIdle EXCEPT !.stage = "input", !.input_string = s,
                                            !.first_line = s]
  /\ pass = PassIdle
  /\ writer = WriterInit
  /\ calls = <<>>

\* split(input_string) under the Reader's state.
Tokenize ==
  /\ tok.stage \in {"input", "joined"}
  /\ LET d == reader.current_dialect_
         sc == Scan(d, reader.trimming_enabled_, reader.columns_, tok.input_string)
     IN tok' = [tok EXCEPT
                  !.stage = IF tok.stage = "input" THEN "split" ELSE "resplit",
                  !.result = split(d, reader.trimming_enabled_, reader.columns_,
                                   tok.input_string),
                  !.scanned = sc.result,
                  !.accepted = sc.accepted]
  /\ UNCHANGED <<reader, pass, writer, calls>>

\* The fields joined by the dialect's delimiter, as write_row builds a row
\* before it appends the line terminator.
Join ==
  /\ tok.stage = "split"
  /\ tok' = [tok EXCEPT
               !.stage = "joined",
               !.first_result = tok.result,
               !.input_string = JoinEntries(tok.result,
                                            reader.current_dialect_.delimiter_)]
  /\ UNCHANGED <<reader, pass, writer, calls>>

NextSplit == Tokenize \/ Join

SpecSplit == InitSplit /\ [][NextSplit]_vars

(***************************************************************************)
(* Reference notions the tokenizer's properties are stated with             *)
(***************************************************************************)
\* delimiter occurs in s at the 0-based position p
MatchesAt(s, delimiter, p) ==
  /\ p + Len(delimiter) <= Len(s)
  /\ \A j \in 1..Len(delimiter) : s[p + j] = delimiter[j]

Contains(s, delimiter) == \E p \in 0..Len(s) : MatchesAt(s, delimiter, p)

\* The naive left-to-right split of s on the delimiter.
RECURSIVE NaiveSplitFrom(_, _, _, _)
NaiveSplitFrom(s, delimiter, start, p) ==
  IF p >= Len(s) THEN <<SubSeq(s, start + 1, Len(s))>>
  ELSE IF MatchesAt(s, delimiter, p)
       THEN <<SubSeq(s, start + 1, p)>>
            \o NaiveSplitFrom(s, delimiter, p + Len(delimiter), p + Len(delimiter))
       ELSE NaiveSplitFrom(s, delimiter, start, p + 1)

NaiveSplit(s, delimiter) == NaiveSplitFrom(s, delimiter, 0, 0)

\* A sequence forced to k entries when k is nonzero.
Forced(fields, k) ==
  IF k = 0 THEN fields
  ELSE [x \in 1..k |-> IF x <= Len(fields) THEN fields[x] ELSE <<>>]

\* The quoted spans of a line: <<o, c>> with o the position of the quote
\* character that opens a field and c the position of the quote character
\* that closes it (followed by a delimiter or the end of the line); with
\* double_quote_ two consecutive quote characters inside a span are content.
RECURSIVE QuotedSpansFrom(_, _, _, _, _)
QuotedSpansFrom(d, s, p, fieldStart, open) ==
  IF p >= Len(s) THEN {}
  ELSE IF open >= 0
       THEN IF s[p + 1] # d.quote_character_
            THEN QuotedSpansFrom(d, s, p + 1, FALSE, open)
            ELSE IF d.double_quote_ /\ At(s, p + 1) = d.quote_character_
                 THEN QuotedSpansFrom(d, s, p + 2, FALSE, open)
                 ELSE IF p + 1 = Len(s) \/ MatchesAt(s, d.delimiter_, p + 1)
                      THEN {<<open, p>>}
                           \cup QuotedSpansFrom(d, s, p + 1, FALSE, -1)
                      ELSE QuotedSpansFrom(d, s, p + 1, FALSE, -1)
       ELSE IF fieldStart /\ s[p + 1] = d.quote_character_
            THEN QuotedSpansFrom(d, s, p + 1, FALSE, p)
            ELSE IF MatchesAt(s, d.delimiter_, p)
                 THEN QuotedSpansFrom(d, s, p + Len(d.delimiter_), TRUE, -1)
                 ELSE QuotedSpansFrom(d, s, p + 1, FALSE, -1)

QuotedSpans(d, s) == QuotedSpansFrom(d, s, 0, TRUE, -1)

CommaQuoteDialect == DefaultDialect

(***************************************************************************)
(* Properties of the tokenizer                                              *)
(***************************************************************************)
\* C1: under a dialect whose delimiter does not contain the quote character,
\* no delimiter occurrence that lies between the opening and the closing
\* quote character of a quote-wrapped field is accepted as a separator.
C1_QuotedDelimiterNeverSeparates ==
  (tok.stage = "split"
     /\ \A j \in 1..Len(reader.current_dialect_.delimiter_) :
          reader.current_dialect_.delimiter_[j] # reader.current_dialect_.quote_character_)
  => \A i \in tok.accepted :
       \A sp \in QuotedSpans(reader.current_dialect_, tok.first_line) :
         ~(sp[1] < i - Len(reader.current_dialect_.delimiter_) + 1 /\ i < sp[2])

\* C2: with double_quote on, the line a,"b""c",d under the comma/double-quote
\* dialect tokenizes to exactly the three fields a, b"c and d.
C2_DoubledQuoteScenario ==
  (tok.stage = "split" /\ tok.input_string = LineDoubledQuote
     /\ reader.current_dialect_ = CommaQuoteDialect /\ reader.columns_ = 0)
  => tok.result = <<(<<"a">>), <<"b", QUOTE, "c">>, (<<"d">>)>>

\* C3: the line a,"b,c",d under the comma/double-quote dialect tokenizes to
\* exactly the fields a, b,c and d, the second without its wrapping quotes.
C3_QuotedFieldScenario ==
  (tok.stage = "split" /\ tok.input_string = LineQuotedDelimiter
     /\ reader.current_dialect_ = CommaQuoteDialect /\ reader.columns_ = 0)
  => tok.result = <<(<<"a">>), <<"b", ",", "c">>, (<<"d">>)>>

\* C4: for a line without a quote character (trim set empty,
\* skip_initial_space off) split returns the naive split of the line on the
\* delimiter, both forced to the expected column count when it is nonzero,
\* and no character outside a full delimiter occurrence is lost or added
\* (with no expected column count the two are compared by the characters
\* they keep, so that empty fields make no difference).
C4_NaiveSplitEquivalence ==
  (tok.stage = "split"
     /\ reader.current_dialect_.trim_characters_ = {}
     /\ ~reader.current_dialect_.skip_initial_space_
     /\ \A x \in 1..Len(tok.input_string) :
          tok.input_string[x] # reader.current_dialect_.quote_character_)
  => LET naive == NaiveSplit(tok.input_string, reader.current_dialect_.delimiter_)
     IN /\ reader.columns_ # 0 => tok.result = Forced(naive, reader.columns_)
        /\ reader.columns_ = 0 => JoinEntries(tok.result, <<>>) = JoinEntries(naive, <<>>)

\* C5: a field sequence returned by split in which no field contains the
\* delimiter or the quote character, joined with the delimiter and tokenized
\* again with the same dialect and column count, is returned unchanged.
C5_RoundTrip ==
  (tok.stage = "resplit"
     /\ \A x \in 1..Len(tok.first_result) :
          /\ ~Contains(tok.first_result[x], reader.current_dialect_.delimiter_)
          /\ ~Contains(tok.first_result[x], <<reader.current_dialect_.quote_character_>>))
  => tok.result = tok.first_result

\* C7: when columns_ is nonzero the sequence split returns has exactly
\* columns_ entries: the scanned fields in order, cut after columns_ of them
\* or followed by empty strings, and columns_ empty strings for an empty
\* line; when columns_ is 0 the scanned fields are returned as they are.
C7_PadTruncate ==
  tok.stage \in {"split", "resplit"}
  => /\ reader.columns_ # 0
          => /\ Len(tok.result) = reader.columns_
             /\ \A x \in 1..reader.columns_ :
                  tok.result[x] = IF x <= Len(tok.scanned) THEN tok.scanned[x]
                                  ELSE <<>>
             /\ tok.input_string = <<>>
                  => \A x \in 1..reader.columns_ : tok.result[x] = <<>>
     /\ reader.columns_ = 0 => tok.result = tok.scanned

\* C7 witnesses: a long result cut, a short one padded, an empty line.
C7_Witness ==
  /\ tok.stage = "split"
  /\ reader.columns_ = 2
  /\ Len(tok.scanned) = 3
  /\ tok.result = SubSeq(tok.scanned, 1, 2)

(***************************************************************************)
(* Reader: the dialect registry and the Dialect setters                     *)
(***************************************************************************)
ColumnNames == {<<"a">>, <<"b">>}

RegistryNames == {"excel", "excel_tab", "mine", "ghost"}

\* The dialects a caller holds a reference to (configure_dialect and
\* get_dialect return references into dialects_). A setter call is modelled
\* when it changes the value it sets.
Configurable == DOMAIN reader.dialects_ \cap {"excel", "mine"}

MayConfigure == pass.pc = "idle" /\ pass.configs < MaxConfig

Configured(r) ==
  /\ reader' = r
  /\ pass' = [pass EXCEPT !.configs = @ + 1]
  /\ UNCHANGED <<tok, writer, calls>>

SetDialect(n, d) == Configured([reader EXCEPT !.dialects_[n] = d])

\* Reader::configure_dialect
ConfigureDialect ==
  /\ MayConfigure
  /\ \E n \in {"excel", "mine"} :
       IF n \in DOMAIN reader.dialects_
       THEN Configured(reader)
       ELSE Configured([reader EXCEPT
                          !.dialects_ = [m \in DOMAIN @ \cup {n} |->
                                           IF m = n THEN DefaultDialect ELSE @[m]],
                          !.current_dialect_name_ = n])

\* Reader::use_dialect: the name is stored before the registry is looked up;
\* the exception thrown for an unregistered name changes nothing else.
UseDialect ==
  /\ MayConfigure
  /\ \E n \in RegistryNames :
       /\ n # reader.current_dialect_name_
       /\ Configured([reader EXCEPT !.current_dialect_name_ = n])

\* Dialect::delimiter
SetDelimiter ==
  /\ MayConfigure
  /\ \E n \in Configurable, de \in Delimiters :
       /\ de # reader.dialects_[n].delimiter_
       /\ SetDialect(n, [reader.dialects_[n] EXCEPT !.delimiter_ = de])

\* Dialect::skip_initial_space
SetSkipInitialSpace ==
  /\ MayConfigure
  /\ \E n \in Configurable, b \in BOOLEAN :
       /\ b # reader.dialects_[n].skip_initial_space_
       /\ SetDialect(n, [reader.dialects_[n] EXCEPT !.skip_initial_space_ = b])

\* Dialect::skip_empty_rows
SetSkipEmptyRows ==
  /\ MayConfigure
  /\ \E n \in Configurable, b \in BOOLEAN :
       /\ b # reader.dialects_[n].skip_empty_rows_
       /\ SetDialect(n, [reader.dialects_[n] EXCEPT !.skip_empty_rows_ = b])

\* Dialect::double_quote
SetDoubleQuote ==
  /\ MayConfigure
  /\ \E n \in Configurable, b \in BOOLEAN :
       /\ b # reader.dialects_[n].double_quote_
       /\ SetDialect(n, [reader.dialects_[n] EXCEPT !.double_quote_ = b])

\* Dialect::trim_characters
AddTrimCharacters ==
  /\ MayConfigure
  /\ \E n \in Configurable, c \in {" "} :
       SetDialect(n, [reader.dialects_[n] EXCEPT !.trim_characters_ = @ \cup {c}])

\* Dialect::ignore_columns
AddIgnoreColumns ==
  /\ MayConfigure
  /\ \E n \in Configurable, c \in ColumnNames :
       SetDialect(n, [reader.dialects_[n] EXCEPT !.ignore_columns_ = @ \cup {c}])

\* Dialect::column_names
AddColumnNames ==
  /\ MayConfigure
  /\ \E n \in Configurable, c \in ColumnNames :
       /\ Len(reader.dialects_[n].column_names_) < MaxCols
       /\ SetDialect(n, [reader.dialects_[n] EXCEPT !.column_names_ = Append(@, c)])

\* Dialect::header
SetHeader ==
  /\ MayConfigure
  /\ \E n \in Configurable, b \in BOOLEAN :
       /\ b # reader.dialects_[n].header_
       /\ SetDialect(n, [reader.dialects_[n] EXCEPT !.header_ = b])

(***************************************************************************)
(* Reader::read and Reader::read_internal                                   *)
(*                                                                          *)
(* A file is the sequence of its lines as std::getline returns them.        *)
(***************************************************************************)
CR == "\r"

FileLines ==
  {<<>>, <<"a">>, <<"a", ",", "b">>, <<"a", ",", "a">>, <<"a", CR>>}

Files == UNION {[1..m -> FileLines] : m \in 0..MaxFileLines}

\* if (line.size() > 0 && line[line.size() - 1] == '\r') line.pop_back();
StripCR(line) ==
  IF Len(line) > 0 /\ line[Len(line)] = CR
  THEN SubSeq(line, 1, Len(line) - 1)
  ELSE line

\* The test both loops of read apply to a line:
\* line != "" || (!skip_empty_rows && line == "")
Counted(d, line) == StripCR(line) # <<>> \/ ~d.skip_empty_rows_

\* The pre-scan loop of read: the lines it counts.
RECURSIVE PreScan(_, _)
PreScan(d, file) ==
  IF file = <<>> THEN 0
  ELSE (IF Counted(d, Head(file)) THEN 1 ELSE 0) + PreScan(d, Tail(file))

\* std::to_string for a size_t
Digits == <<"0", "1", "2", "3", "4", "5", "6", "7", "8", "9">>

RECURSIVE to_string(_)
to_string(i) ==
  IF i < 10 THEN <<Digits[i + 1]>>
  ELSE to_string(i \div 10) \o <<Digits[(i % 10) + 1]>>

\* dialects_[current_dialect_name_]: operator[] inserts a default Dialect
\* under a name the registry does not hold.
Lookup(dialects, n) ==
  IF n \in DOMAIN dialects THEN dialects
  ELSE [m \in DOMAIN dialects \cup {n} |->
          IF m = n THEN DefaultDialect ELSE dialects[m]]

\* expected_number_of_rows_ as read leaves it.
ExpectedAfterRead(old, d, file, rows) ==
  IF rows > 0 THEN rows
  ELSE LET counted == old + PreScan(d, file)
       IN IF d.header_ /\ counted > 0 THEN counted - 1 ELSE counted

\* headers_ as read_internal derives it from the tokenized first line.
DeriveHeaders(d, split_result) ==
  IF d.header_ THEN split_result
  ELSE IF Len(d.column_names_) > 0 THEN d.column_names_
       ELSE [x \in 1..Len(split_result) |-> to_string(x - 1)]

\* The row template: every header mapped to "", the ignored columns erased.
RowTemplate(headers, enabled, ignored) ==
  [h \in {headers[x] : x \in 1..Len(headers)}
         \ (IF enabled THEN ignored ELSE {}) |-> <<>>]

\* read() fails to open the file: current_dialect_ is already assigned.
ReadFails ==
  /\ pass.pc = "idle" /\ pass.passes < MaxPasses
  /\ LET ds == Lookup(reader.dialects_, reader.current_dialect_name_)
     IN reader' = [reader EXCEPT !.dialects_ = ds,
                                 !.current_dialect_ = ds[reader.current_dialect_name_]]
  /\ pass' = [pass EXCEPT !.passes = @ + 1]
  /\ UNCHANGED <<tok, writer, calls>>

\* read(filename, rows) up to the first test of the main loop of
\* read_internal.
ReadOpen ==
  /\ pass.pc = "idle" /\ pass.passes < MaxPasses
  /\ \E file \in Files, rows \in 0..MaxRowsArg :
       LET ds == Lookup(reader.dialects_, reader.current_dialect_name_)
           d == ds[reader.current_dialect_name_]
           trimming == reader.trimming_enabled_ \/ d.trim_characters_ # {}
           ignoring == reader.ignore_columns_enabled_ \/ d.ignore_columns_ # {}
           first_line == IF file = <<>> THEN <<>> ELSE StripCR(Head(file))
           split_result == split(d, trimming, reader.columns_, first_line)
           headers == DeriveHeaders(d, split_result)
       IN /\ reader' = [reader EXCEPT
                          !.dialects_ = ds,
                          !.current_dialect_ = d,
                          !.expected_number_of_rows_ =
                             ExpectedAfterRead(@, d, file, rows),
                          !.trimming_enabled_ = trimming,
                          !.ignore_columns_enabled_ = ignoring,
                          !.headers_ = headers,
                          !.columns_ = Len(headers)]
          /\ pass' = [pass EXCEPT
                        !.pc = "loop", !.file = file, !.rows = rows,
                        !.stream = IF file = <<>> THEN <<>>
                                   ELSE IF d.header_ THEN Tail(file) ELSE file,
                        !.number_of_rows = 0,
                        !.current_row =
                           RowTemplate(headers, ignoring, d.ignore_columns_),
                        !.split_result = <<>>, !.bound = FALSE,
                        !.passes = @ + 1]
  /\ UNCHANGED <<tok, writer, calls>>

\* What headers_[i] at or past headers_.size() may yield when the program
\* survives the read.
StrayNames == {<<>>, <<"a">>}

\* The binding loop: value x of split_result is stored under names[x] unless
\* that name is ignored.
RECURSIVE Bind(_, _, _, _, _)
Bind(row, names, values, enabled, ignored) ==
  IF values = <<>> THEN row
  ELSE LET n == Head(names)
           next == IF ~enabled \/ n \notin ignored
                   THEN [k \in DOMAIN row \cup {n} |->
                           IF k = n THEN Head(values) ELSE row[k]]
                   ELSE row
       IN Bind(next, Tail(names), Tail(values), enabled, ignored)

\* One iteration of the main loop of read_internal that gets a line and does
\* not break.
ReadRow ==
  /\ pass.pc = "loop"
  /\ pass.stream # <<>>
  /\ pass.number_of_rows # reader.expected_number_of_rows_
  /\ LET d == reader.current_dialect_
         row == StripCR(Head(pass.stream))
         split_result == split(d, reader.trimming_enabled_, reader.columns_, row)
         over == Len(split_result) - Len(reader.headers_)
     IN IF ~Counted(d, Head(pass.stream))
        THEN /\ pass' = [pass EXCEPT !.stream = Tail(@), !.bound = FALSE]
             /\ UNCHANGED reader
        ELSE IF over <= 0
        THEN LET current_row == Bind(pass.current_row, reader.headers_,
                                     split_result,
                                     reader.ignore_columns_enabled_,
                                     d.ignore_columns_)
             IN /\ reader' = [reader EXCEPT !.rows_ = Append(@, current_row)]
                /\ pass' = [pass EXCEPT
                              !.stream = Tail(@), !.current_row = current_row,
                              !.split_result = split_result, !.bound = TRUE,
                              !.number_of_rows = @ + 1]
        ELSE \* headers_[i++] runs past the end of headers_: undefined
             \* behaviour, which either ends the program or yields a stray
             \* name for every position past the end.
             \/ /\ pass' = [pass EXCEPT !.pc = "crashed",
                                        !.split_result = split_result,
                                        !.bound = TRUE]
                /\ UNCHANGED reader
             \/ \E stray \in StrayNames :
                  LET names == reader.headers_ \o [x \in 1..over |-> stray]
                      current_row == Bind(pass.current_row, names, split_result,
                                          reader.ignore_columns_enabled_,
                                          d.ignore_columns_)
                  IN /\ reader' = [reader EXCEPT !.rows_ = Append(@, current_row)]
                     /\ pass' = [pass EXCEPT
                                   !.stream = Tail(@), !.current_row = current_row,
                                   !.split_result = split_result, !.bound = TRUE,
                                   !.number_of_rows = @ + 1]
  /\ UNCHANGED <<tok, writer, calls>>

\* The main loop ends (no line left, or the break on the expected number of
\* rows), the stream is closed and the locals of the call are gone.
ReadClose ==
  /\ pass.pc = "loop"
  /\ pass.stream = <<>> \/ pass.number_of_rows = reader.expected_number_of_rows_
  /\ pass' = [PassIdle EXCEPT !.passes = pass.passes, !.configs = pass.configs]
  /\ UNCHANGED <<reader, tok, writer, calls>>

Init ==
  /\ reader = ReaderInit
  /\ pass = PassIdle
  /\ tok = TokIdle
  /\ writer = WriterInit
  /\ calls = <<>>

Next ==
  \/ ConfigureDialect
  \/ UseDialect
  \/ SetDelimiter
  \/ SetSkipInitialSpace
  \/ SetSkipEmptyRows
  \/ SetDoubleQuote
  \/ AddTrimCharacters
  \/ AddIgnoreColumns
  \/ AddColumnNames
  \/ SetHeader
  \/ ReadFails
  \/ ReadOpen
  \/ ReadRow
  \/ ReadClose

Spec == Init /\ [][Next]_vars

(***************************************************************************)
(* Properties of a parse pass                                               *)
(***************************************************************************)
\* The Rows appended to rows_ by the pass in progress.
RowsOfPass ==
  {reader.rows_[x] : x \in (Len(reader.rows_) - pass.number_of_rows + 1)
                           ..Len(reader.rows_)}

HeaderNamesDistinct ==
  \A x, y \in 1..Len(reader.headers_) :
    reader.headers_[x] = reader.headers_[y] => x = y

\* C6: with a header of k (distinct) names, every Row a pass appends has
\* exactly k entries minus the ignored columns, however many fields the data
\* line held.
C6_RowHasHeaderEntries ==
  (pass.pc = "loop" /\ HeaderNamesDistinct)
  => \A row \in RowsOfPass :
       Cardinality(DOMAIN row)
         = Cardinality({x \in 1..Len(reader.headers_) :
                          reader.headers_[x]
                            \notin reader.current_dialect_.ignore_columns_})

\* The expected row count of the pass in progress: the rows argument if
\* positive, otherwise the number of non-skipped lines of the file, minus one
\* for a configured header.
ExpectedRowsOfPass ==
  IF pass.rows > 0 THEN pass.rows
  ELSE LET counted == PreScan(reader.current_dialect_, pass.file)
       IN IF reader.current_dialect_.header_ /\ counted > 0
          THEN counted - 1 ELSE counted

\* C8: a pass never appends more Rows than its expected row count (stated
\* for the passes whose header is not empty, where every binding stays within
\* headers_).
C8_RowCountAuthoritative ==
  (pass.pc = "loop" /\ reader.columns_ # 0)
  => pass.number_of_rows <= ExpectedRowsOfPass

\* C10: whenever a tokenized data line is bound to column names it is as long
\* as the header, so every index used on headers_ is below its length.
C10_BindingWithinHeader ==
  pass.bound => Len(pass.split_result) = Len(reader.headers_)

\* C11: use_dialect with a name the registry does not hold leaves the Reader
\* as it was. So no call ever makes a name outside the registry the active
\* one (the active name changes only to a registered name), and a read()
\* call, the step that counts a pass, finds the active name in the registry
\* and adds no entry to it.
C11_UseDialectUnregisteredName ==
  [][/\ \/ reader'.current_dialect_name_ = reader.current_dialect_name_
        \/ reader'.current_dialect_name_ \in DOMAIN reader'.dialects_
     /\ pass'.passes # pass.passes
          => DOMAIN reader'.dialects_ = DOMAIN reader.dialects_]_vars

(***************************************************************************)
(* Writer                                                                   *)
(*                                                                          *)
(* writer.stream_ is the sequence of strings handed to the output stream,   *)
(* which stays open; calls is the history of the write_row calls made: the  *)
(* entries of each and the active dialect as the call found it.             *)
(***************************************************************************)
\* Writer::write_header: the stream after it.
write_header(w) ==
  LET dialect == Lookup(w.dialects_, w.current_dialect_name_)[w.current_dialect_name_]
  IN IF Len(dialect.column_names_) = 0 THEN w.stream_
     ELSE Append(w.stream_,
                 JoinEntries(dialect.column_names_, dialect.delimiter_)
                   \o <<dialect.line_terminator_>>)

\* write_row() that takes the header for due on every call.
write_row_header_every_time(w) ==
  LET ds == Lookup(w.dialects_, w.current_dialect_name_)
      d == ds[w.current_dialect_name_]
  IN [w EXCEPT
        !.dialects_ = ds,
        !.header_written_ = TRUE,
        !.stream_ = Append(write_header(w),
                           JoinEntries(w.current_row_entries_, d.delimiter_)
                             \o <<d.line_terminator_>>),
        !.current_row_entries_ = <<>>]

\* Writer::write_row(), the form without arguments the other forms end in.
write_row(w) ==
  LET ds == Lookup(w.dialects_, w.current_dialect_name_)
      d == ds[w.current_dialect_name_]
      stream == IF ~w.header_written_ THEN write_header(w) ELSE w.stream_
  IN [w EXCEPT
        !.dialects_ = ds,
        !.header_written_ = TRUE,
        !.stream_ = Append(stream,
                           JoinEntries(w.current_row_entries_, d.delimiter_)
                             \o <<d.line_terminator_>>),
        !.current_row_entries_ = <<>>]

Entries == {<<"a">>, <<",", QUOTE>>}

RowEntries == UNION {[1..m -> Entries] : m \in 0..2}

WriterMayConfigure == pass.configs < MaxConfig

WriterConfigured(w) ==
  /\ writer' = w
  /\ pass' = [pass EXCEPT !.configs = @ + 1]
  /\ UNCHANGED <<reader, tok, calls>>

\* Writer::configure_dialect
WriterConfigureDialect ==
  /\ WriterMayConfigure
  /\ \E n \in {"excel", "mine"} :
       IF n \in DOMAIN writer.dialects_
       THEN WriterConfigured(writer)
       ELSE WriterConfigured([writer EXCEPT
                                !.dialects_ = Lookup(@, n),
                                !.current_dialect_name_ = n])

\* Writer::use_dialect
WriterUseDialect ==
  /\ WriterMayConfigure
  /\ \E n \in {"excel", "mine", "ghost"} :
       /\ n # writer.current_dialect_name_
       /\ WriterConfigured([writer EXCEPT !.current_dialect_name_ = n])

\* Dialect::column_names on a dialect of the Writer
WriterAddColumnNames ==
  /\ WriterMayConfigure
  /\ \E n \in DOMAIN writer.dialects_ \cap {"excel", "mine"}, c \in ColumnNames :
       /\ Len(writer.dialects_[n].column_names_) < MaxCols
       /\ WriterConfigured([writer EXCEPT
                              !.dialects_[n].column_names_ = Append(@, c)])

\* Dialect::delimiter on a dialect of the Writer
WriterSetDelimiter ==
  /\ WriterMayConfigure
  /\ \E n \in DOMAIN writer.dialects_ \cap {"excel", "mine"}, de \in Delimiters :
       /\ de # writer.dialects_[n].delimiter_
       /\ WriterConfigured([writer EXCEPT !.dialects_[n].delimiter_ = de])

\* The record of a write_row call kept in calls.
Call(w, entries) ==
  [entries |-> entries,
   dialect |-> Lookup(w.dialects_, w.current_dialect_name_)[w.current_dialect_name_]]

Wrote(w, entries) ==
  /\ writer' = w
  /\ calls' = Append(calls, Call(writer, entries))
  /\ UNCHANGED <<reader, pass, tok>>

\* Writer::write_row(const std::vector<std::string>&)
WriteRowVector ==
  /\ Len(calls) < MaxWrites
  /\ \E row_entries \in RowEntries :
       Wrote(write_row([writer EXCEPT !.current_row_entries_ = row_entries]),
             row_entries)

\* The push_back calls of the variadic write_row(entry, Fargs...).
RECURSIVE PushEntries(_, _)
PushEntries(w, entries) ==
  IF entries = <<>> THEN w
  ELSE PushEntries([w EXCEPT !.current_row_entries_ = Append(@, Head(entries))],
                   Tail(entries))

\* Writer::write_row(T entry, Targs... Fargs)
WriteRowVariadic ==
  /\ Len(calls) < MaxWrites
  /\ \E row_entries \in RowEntries \ {<<>>} :
       Wrote(write_row(PushEntries(writer, row_entries)),
             writer.current_row_entries_ \o row_entries)

\* Writer::write_row()
WriteRowNoArguments ==
  /\ Len(calls) < MaxWrites
  /\ Wrote(write_row(writer), writer.current_row_entries_)

InitWriter == Init

NextWriter ==
  \/ WriterConfigureDialect
  \/ WriterUseDialect
  \/ WriterAddColumnNames
  \/ WriterSetDelimiter
  \/ WriteRowVector
  \/ WriteRowVariadic
  \/ WriteRowNoArguments

SpecWriter == InitWriter /\ [][NextWriter]_vars

(***************************************************************************)
(* Properties of the Writer                                                 *)
(***************************************************************************)
\* The line of a sequence of entries: the entries, one delimiter between
\* each two of them, then the line terminator.
RECURSIVE LineOf(_, _)
LineOf(entries, dialect) ==
  IF Len(entries) = 0 THEN <<dialect.line_terminator_>>
  ELSE IF Len(entries) = 1 THEN entries[1] \o <<dialect.line_terminator_>>
       ELSE entries[1] \o dialect.delimiter_ \o LineOf(Tail(entries), dialect)

\* C9: when the active dialect has column names at the first write_row call,
\* the output is the header line once, first, and after it one line per
\* write_row call: the entries joined by the delimiter and the line
\* terminator, nothing quoted or escaped.
C9_HeaderOnceThenRows ==
  (calls # <<>> /\ calls[1].dialect.column_names_ # <<>>)
  => /\ Len(writer.stream_) = Len(calls) + 1
     /\ writer.stream_[1] = LineOf(calls[1].dialect.column_names_, calls[1].dialect)
     /\ \A x \in 1..Len(calls) :
          writer.stream_[x + 1] = LineOf(calls[x].entries, calls[x].dialect)

\* C9 witness: two rows written after the header, the second under another
\* delimiter and carrying a delimiter and a quote character in an entry.
C9_Witness ==
  /\ Len(calls) = 2
  /\ calls[1].dialect.column_names_ # <<>>
  /\ calls[2].dialect.delimiter_ # calls[1].dialect.delimiter_
  /\ Len(calls[2].entries) = 2
  /\ calls[2].entries[2] = <<",", QUOTE>>
  /\ Len(writer.stream_) = 3

====
